---- MODULE Spec2Model ----
(***************************************************************************)
(* Adafruit_FXAS21002C: gyroscope driver over an I2C register transport.   *)
(*                                                                         *)
(* The model follows the current implementation (the Adafruit_BusIO based  *)
(* begin/initialize/setRange/standby/setODR of the class declared in       *)
(* Adafruit_FXAS21002C.h).  The driver owns _range, _ODR and raw; the      *)
(* device owns the registers CTRL_REG0 and CTRL_REG1.  Every public call   *)
(* is one action; the bus transactions it issued are kept in trace.        *)
(*                                                                         *)
(* Output data rates are floats in the source; they are kept here in       *)
(* tenths of a hertz (12.5 Hz = 125), which is exact for every constant.   *)
(***************************************************************************)
EXTENDS Integers, Sequences, FiniteSets, TLC

VARIABLES
    _range,     \* gyroRange_t _range
    _ODR,       \* float _ODR, in tenths of Hz
    raw,        \* gyroRawData_t raw
    i2c_dev,    \* "NULL", "closed" (allocated, begin() failed) or "open"
    regs,       \* the device: register address -> byte
    trace,      \* bus transactions and delays of the most recent call
    lastOp,     \* name of the most recent call
    lastArg,    \* its argument
    ret,        \* its return value (TRUE for the void operations)
    buffer,     \* uint8_t buffer[7] of the most recent call (<< >> if it has none)
    cleared,    \* raw was (0,0,0) when the most recent call issued its block read
    out,        \* what the most recent call wrote through its out-parameter
    reqRange,   \* history: range most recently requested (0 = none yet)
    initialized, \* history: some begin() has returned true
    atBegin     \* history: what the most recent call found on entry, if it was begin()

vars == <<_range, _ODR, raw, i2c_dev, regs, trace, lastOp, lastArg, ret,
          buffer, cleared, out, reqRange, initialized, atBegin>>

----------------------------------------------------------------------------
(* Constants of Adafruit_FXAS21002C.h *)

FXAS21002C_ID == 215                \* 0xD7

GYRO_REGISTER_STATUS    == 0        \* 0x00
GYRO_REGISTER_WHO_AM_I  == 12       \* 0x0C
GYRO_REGISTER_CTRL_REG0 == 13       \* 0x0D
GYRO_REGISTER_CTRL_REG1 == 19       \* 0x13

GYRO_RANGE_250DPS  == 250
GYRO_RANGE_500DPS  == 500
GYRO_RANGE_1000DPS == 1000
GYRO_RANGE_2000DPS == 2000

GYRO_ODR_800HZ  == 8000
GYRO_ODR_400HZ  == 4000
GYRO_ODR_200HZ  == 2000
GYRO_ODR_100HZ  == 1000
GYRO_ODR_50HZ   == 500
GYRO_ODR_25HZ   == 250
GYRO_ODR_12_5HZ == 125

gyroRange_t == {GYRO_RANGE_250DPS, GYRO_RANGE_500DPS, GYRO_RANGE_1000DPS, GYRO_RANGE_2000DPS}

ValidODR == {GYRO_ODR_800HZ, GYRO_ODR_400HZ, GYRO_ODR_200HZ, GYRO_ODR_100HZ,
             GYRO_ODR_50HZ, GYRO_ODR_25HZ, GYRO_ODR_12_5HZ}

----------------------------------------------------------------------------
(* Inputs the environment and the caller can supply *)

\* rates a caller may pass to setODR(float): the seven constants and some others
OdrArgs == ValidODR \cup {0, 120, 3000}

\* bytes the chip at the address may answer for WHO_AM_I
IdBytes == {FXAS21002C_ID, 199, 0}

\* contents of the control registers when the driver is constructed
InitReg0 == {0, 222}
InitReg1 == {0, 47}

\* values the uninitialised members may hold after construction
UninitRange == {0, GYRO_RANGE_2000DPS}
UninitODR == {0, GYRO_ODR_800HZ}
Int16Samples == {100, -50}

\* the seven bytes the device may return for a block read from STATUS:
\* status, then X, Y, Z as MSB, LSB.  (100, -50, 0), (-32768, 32767, -1) and
\* (258, -32767, 255)
SampleBuffers == { <<15, 0, 100, 255, 206, 0, 0>>,
                   <<0, 128, 0, 127, 255, 255, 255>>,
                   <<15, 1, 2, 128, 1, 0, 255>> }

----------------------------------------------------------------------------
(* Bit fields *)

Pow2(n) == 2 ^ n

\* the `width` bits of byte v starting at bit `shift`
Field(v, width, shift) == (v \div Pow2(shift)) % Pow2(width)

\* v with that field replaced by data (data is masked to the field's width)
WithField(v, width, shift, data) ==
    v - Field(v, width, shift) * Pow2(shift) + (data % Pow2(width)) * Pow2(shift)

ModeBits(r) == Field(r[GYRO_REGISTER_CTRL_REG1], 2, 0)
RateBits(r) == Field(r[GYRO_REGISTER_CTRL_REG1], 3, 2)
RangeBits(r) == Field(r[GYRO_REGISTER_CTRL_REG0], 2, 0)

\* CTRL_REG1 bit 1 is ACTIVE: Standby(0)/Active(1); bit 0 is READY
IsActive(mode) == mode \in {2, 3}

----------------------------------------------------------------------------
(* The register transport.  A machine state m is [regs, trace]; every bus  *)
(* transaction appends an event that records the register, the byte       *)
(* transferred, the register's content and the device's mode field when    *)
(* the transaction started, and the accessor object that issued it.        *)

Event(k, reg, val, r, by) ==
    [k |-> k, reg |-> reg, val |-> val,
     old |-> IF reg \in DOMAIN r THEN r[reg] ELSE val,
     mode |-> ModeBits(r), by |-> by]

\* power-up contents of the control registers (default value = 0b00000000)
RegDefault(r) == [a \in DOMAIN r |-> 0]

\* the device's reaction to a register write: CTRL_REG1 bit 6 is RESET
DevWrite(r, reg, val) ==
    IF reg = GYRO_REGISTER_CTRL_REG1 /\ Field(val, 1, 6) = 1
    THEN RegDefault(r)
    ELSE [r EXCEPT ![reg] = val]

\* Adafruit_BusIO_Register::read()
BusRead(m, reg, by) ==
    [regs |-> m.regs,
     trace |-> Append(m.trace, Event("read", reg, m.regs[reg], m.regs, by))]

\* Adafruit_BusIO_Register::write(value)
BusWrite(m, reg, val, by) ==
    [regs |-> DevWrite(m.regs, reg, val),
     trace |-> Append(m.trace, Event("write", reg, val, m.regs, by))]

\* Adafruit_BusIO_RegisterBits(reg, width, shift).write(data):
\* read the register, replace the field, write the register back
BitsWrite(m, reg, width, shift, data, by) ==
    LET m1 == BusRead(m, reg, by)
    IN  BusWrite(m1, reg, WithField(m.regs[reg], width, shift, data), by)

\* WHO_AM_I.read(): the identity register is read-only, its content is the
\* byte id of the chip that answers
IdRead(m, id) ==
    [regs |-> m.regs,
     trace |-> Append(m.trace, Event("read", GYRO_REGISTER_WHO_AM_I, id, m.regs, "WHO_AM_I"))]

\* i2c_dev->write_then_read(buffer, 1, buffer, n): one transaction that sends
\* the register address and reads n bytes
BlockRead(m, reg, n) ==
    [regs |-> m.regs,
     trace |-> Append(m.trace, Event("readBlock", reg, n, m.regs, "i2c_dev"))]

\* delay(ms)
Delay(m, ms) ==
    [regs |-> m.regs,
     trace |-> Append(m.trace, Event("delay", 0, ms, m.regs, "delay"))]

----------------------------------------------------------------------------
(* The driver's operations on the machine state *)

\* variant: the two branches exchanged
standbyBus_Inverted(m, enter) ==
    IF enter
    THEN BitsWrite(m, GYRO_REGISTER_CTRL_REG1, 2, 0, 3, "active_bit")
    ELSE Delay(BitsWrite(m, GYRO_REGISTER_CTRL_REG1, 2, 0, 0, "active_bit"), 100)

\* variant: leaving Standby sets READY only
standbyBus_Ready(m, enter) ==
    IF enter
    THEN Delay(BitsWrite(m, GYRO_REGISTER_CTRL_REG1, 2, 0, 0, "active_bit"), 100)
    ELSE BitsWrite(m, GYRO_REGISTER_CTRL_REG1, 2, 0, 1, "active_bit")

\* variant: the whole register is written instead of the two mode bits
standbyBus_WholeReg(m, enter) ==
    IF enter
    THEN Delay(BusWrite(m, GYRO_REGISTER_CTRL_REG1, 0, "CTRL_REG1"), 100)
    ELSE BusWrite(m, GYRO_REGISTER_CTRL_REG1, 3, "CTRL_REG1")

\* variant: the mode field declared three bits wide (active_bit(&CTRL_REG1, 3, 0))
standbyBus_WideField(m, enter) ==
    IF enter
    THEN Delay(BitsWrite(m, GYRO_REGISTER_CTRL_REG1, 3, 0, 0, "active_bit"), 100)
    ELSE BitsWrite(m, GYRO_REGISTER_CTRL_REG1, 3, 0, 3, "active_bit")

\* standby(boolean standby)
standbyBus(m, enter) ==
    IF enter
    THEN Delay(BitsWrite(m, GYRO_REGISTER_CTRL_REG1, 2, 0, 0, "active_bit"), 100)
    ELSE BitsWrite(m, GYRO_REGISTER_CTRL_REG1, 2, 0, 3, "active_bit")

\* variant: the enum value itself is written to the field (range_bits.write(range))
FSBits_Raw(range) == range % 4

\* the FS[1:0] value setRange writes for each range (the switch of setRange)
FSBits(range) ==
    CASE range = GYRO_RANGE_250DPS  -> 3
      [] range = GYRO_RANGE_500DPS  -> 2
      [] range = GYRO_RANGE_1000DPS -> 1
      [] range = GYRO_RANGE_2000DPS -> 0

\* setRange(range): the bus side
setRangeBus(m, range) ==
    LET m1 == standbyBus(m, TRUE)
        m2 == IF range \in gyroRange_t
              THEN BitsWrite(m1, GYRO_REGISTER_CTRL_REG0, 2, 0, FSBits(range), "range_bits")
              ELSE m1
    IN  standbyBus(m2, FALSE)

\* variant: the codes of 50 Hz and 25 Hz exchanged
DRBits_Swapped(ODR) ==
    IF ODR = GYRO_ODR_800HZ THEN 0
    ELSE IF ODR = GYRO_ODR_400HZ THEN 1
    ELSE IF ODR = GYRO_ODR_200HZ THEN 2
    ELSE IF ODR = GYRO_ODR_100HZ THEN 3
    ELSE IF ODR = GYRO_ODR_50HZ THEN 5
    ELSE IF ODR = GYRO_ODR_25HZ THEN 4
    ELSE IF ODR = GYRO_ODR_12_5HZ THEN 6
    ELSE -1

\* variant: a final else that falls back to 100 Hz
DRBits_Default(ODR) ==
    IF ODR = GYRO_ODR_800HZ THEN 0
    ELSE IF ODR = GYRO_ODR_400HZ THEN 1
    ELSE IF ODR = GYRO_ODR_200HZ THEN 2
    ELSE IF ODR = GYRO_ODR_100HZ THEN 3
    ELSE IF ODR = GYRO_ODR_50HZ THEN 4
    ELSE IF ODR = GYRO_ODR_25HZ THEN 5
    ELSE IF ODR = GYRO_ODR_12_5HZ THEN 6
    ELSE 3

\* the if/else-if chain of setODR: the DR[2:0] value written, -1 when no
\* branch matches and nothing is written
DRBits(ODR) ==
    IF ODR = GYRO_ODR_800HZ THEN 0
    ELSE IF ODR = GYRO_ODR_400HZ THEN 1
    ELSE IF ODR = GYRO_ODR_200HZ THEN 2
    ELSE IF ODR = GYRO_ODR_100HZ THEN 3
    ELSE IF ODR = GYRO_ODR_50HZ THEN 4
    ELSE IF ODR = GYRO_ODR_25HZ THEN 5
    ELSE IF ODR = GYRO_ODR_12_5HZ THEN 6
    ELSE -1

\* setODR(ODR): the bus side
setODRBus(m, ODR) ==
    LET m1 == standbyBus(m, TRUE)
        m2 == IF DRBits(ODR) >= 0
              THEN BitsWrite(m1, GYRO_REGISTER_CTRL_REG1, 3, 2, DRBits(ODR), "datarate_bits")
              ELSE m1
    IN  standbyBus(m2, FALSE)

\* variant: Active written as 0x0F, both mode bits set
initializeBus_BothModeBits(m) ==
    LET m1 == BusWrite(m, GYRO_REGISTER_CTRL_REG1, 0, "CTRL_REG1")
        m2 == BusWrite(m1, GYRO_REGISTER_CTRL_REG1, 64, "CTRL_REG1")
        m3 == BusWrite(m2, GYRO_REGISTER_CTRL_REG0, 3, "CTRL_REG0")
        m4 == BusWrite(m3, GYRO_REGISTER_CTRL_REG1, 15, "CTRL_REG1")
    IN  Delay(m4, 100)

\* variant: the range is written after the transition to Active
initializeBus_RangeLast(m) ==
    LET m1 == BusWrite(m, GYRO_REGISTER_CTRL_REG1, 0, "CTRL_REG1")
        m2 == BusWrite(m1, GYRO_REGISTER_CTRL_REG1, 64, "CTRL_REG1")
        m3 == BusWrite(m2, GYRO_REGISTER_CTRL_REG1, 14, "CTRL_REG1")
        m4 == BusWrite(m3, GYRO_REGISTER_CTRL_REG0, 3, "CTRL_REG0")
    IN  Delay(m4, 100)

\* initialize(): the bus side
initializeBus(m) ==
    LET m1 == BusWrite(m, GYRO_REGISTER_CTRL_REG1, 0, "CTRL_REG1")     \* Standby
        m2 == BusWrite(m1, GYRO_REGISTER_CTRL_REG1, 64, "CTRL_REG1")   \* Reset
        m3 == BusWrite(m2, GYRO_REGISTER_CTRL_REG0, 3, "CTRL_REG0")    \* +-250 dps
        m4 == BusWrite(m3, GYRO_REGISTER_CTRL_REG1, 14, "CTRL_REG1")   \* Active
    IN  Delay(m4, 100)

\* (int16_t)((hi << 8) | lo): the two bytes joined, then narrowed to 16 bits
\* two's complement
ToInt16(u) == IF u % 65536 >= 32768 THEN (u % 65536) - 65536 ELSE u % 65536

\* variant: low byte first (xlo | (xhi << 8) with xlo read first)
DecodeAxis_LowFirst(buf, i) == ToInt16(buf[i + 1] * 256 + buf[i])

\* the axis whose bytes are buffer[i], buffer[i+1] in the source's 0-based
\* indexing; buf is 1-based here, so they are buf[i+1], buf[i+2]
DecodeAxis(buf, i) == ToInt16(buf[i + 1] * 256 + buf[i + 2])

\* variant: the constants of 500 dps and 1000 dps exchanged
Sens128_Swapped(range) ==
    CASE range = GYRO_RANGE_250DPS  -> 1
      [] range = GYRO_RANGE_500DPS  -> 4
      [] range = GYRO_RANGE_1000DPS -> 2
      [] range = GYRO_RANGE_2000DPS -> 8
      [] OTHER -> 128

\* GYRO_SENSITIVITY_* of the switch in getEvent, in units of 1/128 dps per LSB
\* (0.0078125 = 1/128, 0.015625 = 2/128, 0.03125 = 4/128, 0.0625 = 8/128);
\* the switch has no default, so any other _range leaves the value unscaled
Sens128(range) ==
    CASE range = GYRO_RANGE_250DPS  -> 1
      [] range = GYRO_RANGE_500DPS  -> 2
      [] range = GYRO_RANGE_1000DPS -> 4
      [] range = GYRO_RANGE_2000DPS -> 8
      [] OTHER -> 128

\* event->gyro after "*= GYRO_SENSITIVITY_..." and "*= SENSORS_DPS_TO_RADS":
\* the unit of the result is (1/128) * (pi/180) rad/s
ScaleGyro(r, range) ==
    [x |-> r.x * Sens128(range), y |-> r.y * Sens128(range), z |-> r.z * Sens128(range)]

\* getRange(), getODR()
getRange == _range
getODR == _ODR

----------------------------------------------------------------------------
(* Actions: one per public call *)

Start == [regs |-> regs, trace |-> << >>]

ZeroRaw == [x |-> 0, y |-> 0, z |-> 0]

\* a call that fills no sensors_event_t and no sensor_t and reads no block
NoOut == [kind |-> "none"]

NoResult ==
    /\ buffer' = << >>
    /\ cleared' = FALSE
    /\ out' = NoOut

\* the driver as a call of begin() finds it
Entry == [called |-> TRUE, init |-> initialized, range |-> _range, ODR |-> _ODR, raw |-> raw]

\* the most recent call was not begin()
NoEntry == [called |-> FALSE]

Init ==
    /\ _range \in UninitRange
    /\ _ODR \in UninitODR
    /\ raw \in {[x |-> v, y |-> v, z |-> v] : v \in Int16Samples}
    /\ i2c_dev = "NULL"
    /\ \E r0 \in InitReg0, r1 \in InitReg1 :
          regs = (GYRO_REGISTER_CTRL_REG0 :> r0) @@ (GYRO_REGISTER_CTRL_REG1 :> r1)
    /\ trace = << >>
    /\ lastOp = "new"
    /\ lastArg = 0
    /\ ret = TRUE
    /\ buffer = << >>
    /\ cleared = FALSE
    /\ out = NoOut
    /\ reqRange = 0
    /\ initialized = FALSE
    /\ atBegin = NoEntry

\* begin(addr, wire) when i2c_dev->begin() fails: nothing answers at addr
beginNoDevice ==
    /\ i2c_dev' = "closed"
    /\ trace' = << >>
    /\ lastOp' = "begin"
    /\ lastArg' = 0
    /\ ret' = FALSE
    /\ NoResult
    /\ atBegin' = Entry
    /\ UNCHANGED <<_range, _ODR, raw, regs, reqRange, initialized>>

\* variant: initialize() does not set _ODR
begin_NoODR(id) ==
    LET m0 == IdRead(Start, id)
        ok == id = FXAS21002C_ID
        m  == IF ok THEN initializeBus(m0) ELSE m0
    IN  /\ i2c_dev' = "open"
        /\ _range' = IF ok THEN GYRO_RANGE_250DPS ELSE _range
        /\ raw' = IF ok THEN ZeroRaw ELSE raw
        /\ _ODR' = _ODR
        /\ regs' = m.regs
        /\ trace' = m.trace
        /\ lastOp' = "begin"
        /\ lastArg' = id
        /\ ret' = ok
        /\ NoResult
        /\ reqRange' = IF ok THEN GYRO_RANGE_250DPS ELSE reqRange
        /\ initialized' = (initialized \/ ok)
        /\ atBegin' = Entry

\* variant: a mismatched identity byte is read a second time
begin_Retry(id) ==
    LET m0 == IdRead(Start, id)
        ok == id = FXAS21002C_ID
        m  == IF ok THEN initializeBus(m0) ELSE IdRead(m0, id)
    IN  /\ i2c_dev' = "open"
        /\ _range' = IF ok THEN GYRO_RANGE_250DPS ELSE _range
        /\ raw' = IF ok THEN ZeroRaw ELSE raw
        /\ _ODR' = IF ok THEN GYRO_ODR_100HZ ELSE _ODR
        /\ regs' = m.regs
        /\ trace' = m.trace
        /\ lastOp' = "begin"
        /\ lastArg' = id
        /\ ret' = ok
        /\ NoResult
        /\ reqRange' = IF ok THEN GYRO_RANGE_250DPS ELSE reqRange
        /\ initialized' = (initialized \/ ok)
        /\ atBegin' = Entry

\* variant: range, rate and raw are set before the identity check
begin_SetsFirst(id) ==
    LET m0 == IdRead(Start, id)
        ok == id = FXAS21002C_ID
        m  == IF ok THEN initializeBus(m0) ELSE m0
    IN  /\ i2c_dev' = "open"
        /\ _range' = GYRO_RANGE_250DPS
        /\ raw' = ZeroRaw
        /\ _ODR' = GYRO_ODR_100HZ
        /\ regs' = m.regs
        /\ trace' = m.trace
        /\ lastOp' = "begin"
        /\ lastArg' = id
        /\ ret' = ok
        /\ NoResult
        /\ reqRange' = IF ok THEN GYRO_RANGE_250DPS ELSE reqRange
        /\ initialized' = (initialized \/ ok)
        /\ atBegin' = Entry

\* variant: a driver that has been initialised is not initialised again
begin_Once(id) ==
    LET m0 == IdRead(Start, id)
        ok == id = FXAS21002C_ID
        m  == IF ok /\ ~initialized THEN initializeBus(m0) ELSE m0
    IN  /\ i2c_dev' = "open"
        /\ _range' = IF ok /\ ~initialized THEN GYRO_RANGE_250DPS ELSE _range
        /\ raw' = IF ok /\ ~initialized THEN ZeroRaw ELSE raw
        /\ _ODR' = IF ok /\ ~initialized THEN GYRO_ODR_100HZ ELSE _ODR
        /\ regs' = m.regs
        /\ trace' = m.trace
        /\ lastOp' = "begin"
        /\ lastArg' = id
        /\ ret' = ok
        /\ NoResult
        /\ reqRange' = IF ok /\ ~initialized THEN GYRO_RANGE_250DPS ELSE reqRange
        /\ initialized' = (initialized \/ ok)
        /\ atBegin' = Entry

\* begin(addr, wire) when a chip answers at addr; id is its WHO_AM_I byte
begin(id) ==
    LET m0 == IdRead(Start, id)
        ok == id = FXAS21002C_ID
        m  == IF ok THEN initializeBus(m0) ELSE m0
    IN  /\ i2c_dev' = "open"
        /\ _range' = IF ok THEN GYRO_RANGE_250DPS ELSE _range
        /\ raw' = IF ok THEN ZeroRaw ELSE raw
        /\ _ODR' = IF ok THEN GYRO_ODR_100HZ ELSE _ODR
        /\ regs' = m.regs
        /\ trace' = m.trace
        /\ lastOp' = "begin"
        /\ lastArg' = id
        /\ ret' = ok
        /\ NoResult
        /\ reqRange' = IF ok THEN GYRO_RANGE_250DPS ELSE reqRange
        /\ initialized' = (initialized \/ ok)
        /\ atBegin' = Entry

\* variant: returns from Standby without restoring Active when the range is
\* the recorded one
setRange_EarlyReturn(range) ==
    LET m == IF range = _range THEN standbyBus(Start, TRUE) ELSE setRangeBus(Start, range)
    IN  /\ i2c_dev = "open"
        /\ regs' = m.regs
        /\ trace' = m.trace
        /\ _range' = range
        /\ lastOp' = "setRange"
        /\ lastArg' = range
        /\ ret' = TRUE
        /\ NoResult
        /\ reqRange' = range
        /\ atBegin' = NoEntry
        /\ UNCHANGED <<_ODR, raw, i2c_dev, initialized>>

\* variant: the requested range is not recorded
setRange_NoRecord(range) ==
    LET m == setRangeBus(Start, range)
    IN  /\ i2c_dev = "open"
        /\ regs' = m.regs
        /\ trace' = m.trace
        /\ lastOp' = "setRange"
        /\ lastArg' = range
        /\ ret' = TRUE
        /\ NoResult
        /\ reqRange' = range
        /\ atBegin' = NoEntry
        /\ UNCHANGED <<_range, _ODR, raw, i2c_dev, initialized>>

\* setRange(range)
setRange(range) ==
    LET m == setRangeBus(Start, range)
    IN  /\ i2c_dev = "open"
        /\ regs' = m.regs
        /\ trace' = m.trace
        /\ _range' = range
        /\ lastOp' = "setRange"
        /\ lastArg' = range
        /\ ret' = TRUE
        /\ NoResult
        /\ reqRange' = range
        /\ atBegin' = NoEntry
        /\ UNCHANGED <<_ODR, raw, i2c_dev, initialized>>

\* setODR(ODR)
setODR(ODR) ==
    LET m == setODRBus(Start, ODR)
    IN  /\ i2c_dev = "open"
        /\ regs' = m.regs
        /\ trace' = m.trace
        /\ _ODR' = ODR
        /\ lastOp' = "setODR"
        /\ lastArg' = ODR
        /\ ret' = TRUE
        /\ NoResult
        /\ atBegin' = NoEntry
        /\ UNCHANGED <<_range, raw, i2c_dev, reqRange, initialized>>

\* standby(enter)
standby(enter) ==
    LET m == standbyBus(Start, enter)
    IN  /\ i2c_dev = "open"
        /\ regs' = m.regs
        /\ trace' = m.trace
        /\ lastOp' = "standby"
        /\ lastArg' = IF enter THEN 1 ELSE 0
        /\ ret' = TRUE
        /\ NoResult
        /\ atBegin' = NoEntry
        /\ UNCHANGED <<_range, _ODR, raw, i2c_dev, reqRange, initialized>>

\* variant: raw is not cleared and not assigned from the event
getEvent_StaleRaw(buf) ==
    LET m  == BlockRead(Start, GYRO_REGISTER_STATUS, 7)
        g  == [x |-> DecodeAxis(buf, 1), y |-> DecodeAxis(buf, 3), z |-> DecodeAxis(buf, 5)]
    IN  /\ i2c_dev = "open"
        /\ buffer' = buf
        /\ cleared' = (raw = ZeroRaw)
        /\ out' = [kind |-> "event", gyro |-> ScaleGyro(g, _range)]
        /\ regs' = m.regs
        /\ trace' = m.trace
        /\ lastOp' = "getEvent"
        /\ lastArg' = 0
        /\ ret' = TRUE
        /\ atBegin' = NoEntry
        /\ UNCHANGED <<raw, _range, _ODR, i2c_dev, reqRange, initialized>>

\* variant: the device is woken before the read
getEvent_AutoWake(buf) ==
    LET r0 == ZeroRaw
        m  == BlockRead(standbyBus(Start, FALSE), GYRO_REGISTER_STATUS, 7)
        g  == [x |-> DecodeAxis(buf, 1), y |-> DecodeAxis(buf, 3), z |-> DecodeAxis(buf, 5)]
    IN  /\ i2c_dev = "open"
        /\ buffer' = buf
        /\ cleared' = (r0 = ZeroRaw)
        /\ raw' = g
        /\ out' = [kind |-> "event", gyro |-> ScaleGyro(g, _range)]
        /\ regs' = m.regs
        /\ trace' = m.trace
        /\ lastOp' = "getEvent"
        /\ lastArg' = 0
        /\ ret' = TRUE
        /\ atBegin' = NoEntry
        /\ UNCHANGED <<_range, _ODR, i2c_dev, reqRange, initialized>>

\* getEvent(event); buf is what the device returns for the block read
getEvent(buf) ==
    LET r0 == ZeroRaw                                           \* raw.x = raw.y = raw.z = 0
        m  == BlockRead(Start, GYRO_REGISTER_STATUS, 7)
        g  == [x |-> DecodeAxis(buf, 1), y |-> DecodeAxis(buf, 3), z |-> DecodeAxis(buf, 5)]
    IN  /\ i2c_dev = "open"
        /\ buffer' = buf
        /\ cleared' = (r0 = ZeroRaw)
        /\ raw' = g
        /\ out' = [kind |-> "event", gyro |-> ScaleGyro(g, _range)]
        /\ regs' = m.regs
        /\ trace' = m.trace
        /\ lastOp' = "getEvent"
        /\ lastArg' = 0
        /\ ret' = TRUE
        /\ atBegin' = NoEntry
        /\ UNCHANGED <<_range, _ODR, i2c_dev, reqRange, initialized>>

\* variant: min_value left at the memset's zero
getSensor_NoMin ==
    /\ buffer' = << >>
    /\ cleared' = FALSE
    /\ out' = [kind |-> "sensor", max_value |-> _range, min_value |-> 0]
    /\ trace' = << >>
    /\ lastOp' = "getSensor"
    /\ lastArg' = 0
    /\ ret' = TRUE
    /\ atBegin' = NoEntry
    /\ UNCHANGED <<_range, _ODR, raw, i2c_dev, regs, reqRange, initialized>>

\* getSensor(sensor); max_value and min_value in units of (pi/180) rad/s
getSensor ==
    /\ buffer' = << >>
    /\ cleared' = FALSE
    /\ out' = [kind |-> "sensor", max_value |-> _range, min_value |-> _range * (-1)]
    /\ trace' = << >>
    /\ lastOp' = "getSensor"
    /\ lastArg' = 0
    /\ ret' = TRUE
    /\ atBegin' = NoEntry
    /\ UNCHANGED <<_range, _ODR, raw, i2c_dev, regs, reqRange, initialized>>

Next ==
    \/ beginNoDevice
    \/ \E id \in IdBytes : begin(id)
    \/ \E range \in gyroRange_t : setRange(range)
    \/ \E ODR \in OdrArgs : setODR(ODR)
    \/ \E enter \in BOOLEAN : standby(enter)
    \/ \E buf \in SampleBuffers : getEvent(buf)
    \/ getSensor

Spec == Init /\ [][Next]_vars

\* the configuration calls alone: begin, setRange, setODR and standby
NextConfig ==
    \/ beginNoDevice
    \/ \E id \in IdBytes : begin(id)
    \/ \E range \in gyroRange_t : setRange(range)
    \/ \E ODR \in OdrArgs : setODR(ODR)
    \/ \E enter \in BOOLEAN : standby(enter)

SpecConfig == Init /\ [][NextConfig]_vars

----------------------------------------------------------------------------
(* Properties *)

\* the bus writes of the most recent call, in order
Writes == SelectSeq(trace, LAMBDA e : e.k = "write")

\* the most recent call was a begin() that read an identity byte other than 0xD7
IdMismatch ==
    /\ lastOp = "begin"
    /\ Len(trace) >= 1
    /\ trace[1].k = "read"
    /\ trace[1].reg = GYRO_REGISTER_WHO_AM_I
    /\ trace[1].val # FXAS21002C_ID

\* C1: a begin() that reads an identity byte other than 0xD7 from WHO_AM_I
\* returns false and leaves the recorded range and the recorded output rate
\* exactly as they were before the call.
C1_MismatchKeepsConfiguration ==
    [][IdMismatch' => (ret' = FALSE /\ _range' = _range /\ _ODR' = _ODR)]_vars

\* a configured driver (setRange(500), setODR(25 Hz)) whose later begin() met
\* a foreign identity byte
C1_Witness ==
    /\ IdMismatch
    /\ ret = FALSE
    /\ reqRange = GYRO_RANGE_500DPS
    /\ _range = GYRO_RANGE_500DPS
    /\ _ODR = GYRO_ODR_25HZ

\* C2: setRange(range) programs CTRL_REG0 bits[1:0] with 11 for 250 dps,
\* 10 for 500 dps, 01 for 1000 dps and 00 for 2000 dps, from any device state:
\* the field holds that value when setRange returns and the call's one write
\* to CTRL_REG0 carries it.
C2_RangeFieldEncoding ==
    lastOp = "setRange" =>
        LET want == CASE lastArg = 250  -> 3
                      [] lastArg = 500  -> 2
                      [] lastArg = 1000 -> 1
                      [] lastArg = 2000 -> 0
            w0 == SelectSeq(Writes, LAMBDA e : e.reg = GYRO_REGISTER_CTRL_REG0)
        IN  /\ RangeBits(regs) = want
            /\ Len(w0) = 1
            /\ Field(w0[1].val, 2, 0) = want

\* setRange(500 dps) on a device whose CTRL_REG0 has other fields set
C2_Witness ==
    /\ lastOp = "setRange"
    /\ lastArg = GYRO_RANGE_500DPS
    /\ regs[GYRO_REGISTER_CTRL_REG0] = 222
    /\ RangeBits(regs) = 2

C4_RangeRoundTrip ==
    reqRange # 0 => getRange = reqRange

\* setRange(1000) followed by other calls
C4_Witness ==
    /\ reqRange = GYRO_RANGE_1000DPS
    /\ getRange = GYRO_RANGE_1000DPS
    /\ lastOp = "setODR"

\* the seven valid rates in the order of their DR[2:0] codes 000..110
OdrList == <<8000, 4000, 2000, 1000, 500, 250, 125>>

Ordinal(rate) == (CHOOSE i \in 1..Len(OdrList) : OdrList[i] = rate) - 1

\* C5: setODR(rate) with one of the seven valid rates writes CTRL_REG1
\* bits[4:2] with the ordinal position of the rate in 800, 400, 200, 100, 50,
\* 25, 12.5 and getODR() then returns that rate.
C5_ValidRateEncoding ==
    (lastOp = "setODR" /\ lastArg \in ValidODR) =>
        /\ RateBits(regs) = Ordinal(lastArg)
        /\ \E i \in 1..Len(trace) :
              /\ trace[i].k = "write"
              /\ trace[i].by = "datarate_bits"
              /\ Field(trace[i].val, 3, 2) = Ordinal(lastArg)
        /\ getODR = lastArg

\* setODR(12.5 Hz) has programmed 110
C5_Witness ==
    /\ lastOp = "setODR"
    /\ lastArg = GYRO_ODR_12_5HZ
    /\ RateBits(regs) = 6
    /\ getODR = GYRO_ODR_12_5HZ

\* the most recent call was setODR with a rate outside the seven constants
InvalidSetODR == lastOp = "setODR" /\ lastArg \notin ValidODR

RateOfBits(b) == IF b = 7 THEN GYRO_ODR_12_5HZ ELSE OdrList[b + 1]

\* C7: once a begin has succeeded, the value getODR() returns is the rate
\* encoded by the device's CTRL_REG1 bits[4:2].
C7_ODRMatchesRegister ==
    initialized => getODR = RateOfBits(RateBits(regs))

\* C8: when setRange or setODR returns, the mode field CTRL_REG1 bits[1:0] is
\* 11, whatever the mode was before and whether or not the rate was valid.
C8_ConfigRestoresActive ==
    lastOp \in {"setRange", "setODR"} => ModeBits(regs) = 3

\* setODR with an invalid rate, called on a device in Standby
C8_Witness ==
    /\ InvalidSetODR
    /\ trace[1].mode = 0
    /\ ModeBits(regs) = 3

\* a trace event reduced to what went over the bus
Wire(e) == <<e.k, e.reg, e.val>>

\* C9: a successful begin() issues, after the identity read, the writes
\* CTRL_REG1 = 0x00 (Standby), CTRL_REG1 = 0x40 (reset), CTRL_REG0 = range
\* field 11, CTRL_REG1 = 0x0E (Active) in this order, then waits 100 ms and
\* returns.
C9_BeginWriteOrder ==
    (lastOp = "begin" /\ ret = TRUE) =>
        /\ Len(trace) = 6
        /\ Wire(trace[1]) = <<"read", GYRO_REGISTER_WHO_AM_I, FXAS21002C_ID>>
        /\ Wire(trace[2]) = <<"write", GYRO_REGISTER_CTRL_REG1, 0>>
        /\ Wire(trace[3]) = <<"write", GYRO_REGISTER_CTRL_REG1, 64>>
        /\ Wire(trace[4]) = <<"write", GYRO_REGISTER_CTRL_REG0, 3>>
        /\ Wire(trace[5]) = <<"write", GYRO_REGISTER_CTRL_REG1, 14>>
        /\ Wire(trace[6]) = <<"delay", 0, 100>>

\* a second successful begin, on a device the driver had left Active
C9_Witness ==
    /\ lastOp = "begin"
    /\ ret = TRUE
    /\ Len(trace) = 6
    /\ trace[2].mode = 3

\* the most recent call left Standby: standby(false), setRange or setODR
LeftStandby ==
    \/ lastOp = "standby" /\ lastArg = 0
    \/ lastOp \in {"setRange", "setODR"}

\* C10: on standby(false), and so at the end of every setRange and setODR, a
\* delay of 100 ms follows the Active write and precedes the return.
C10_SettleDelayAfterActive ==
    LeftStandby =>
        /\ Len(trace) >= 2
        /\ Wire(trace[Len(trace)]) = <<"delay", 0, 100>>
        /\ trace[Len(trace) - 1].k = "write"
        /\ trace[Len(trace) - 1].reg = GYRO_REGISTER_CTRL_REG1
        /\ Field(trace[Len(trace) - 1].val, 2, 0) = 3

\* C11: after every successful begin() the Raw Sample is (0,0,0), getRange()
\* is 250 dps, getODR() is 100 Hz, CTRL_REG0 bits[1:0] are 11 and CTRL_REG1
\* bits[4:2] are 011.
C11_BeginDefaults ==
    (lastOp = "begin" /\ ret = TRUE) =>
        /\ raw = ZeroRaw
        /\ getRange = 250
        /\ getODR = 1000
        /\ RangeBits(regs) = 3
        /\ RateBits(regs) = 3

\* a successful begin on a device that was running at 12.5 Hz
C11_Witness ==
    /\ lastOp = "begin"
    /\ ret = TRUE
    /\ Field(trace[2].old, 3, 2) = 6
    /\ getODR = 1000

\* the most recent call put the device in Active mode
PutActive ==
    \/ lastOp = "begin" /\ ret = TRUE
    \/ lastOp = "standby" /\ lastArg = 0
    \/ lastOp \in {"setRange", "setODR"}

\* C12 as stated: whenever the driver has put the device in Active mode (a
\* successful begin, standby(false), setRange, setODR) CTRL_REG1 bits[1:0] are
\* 11, and whenever it has put it in Standby they are 00.
C12_SingleActiveEncoding ==
    /\ PutActive => ModeBits(regs) = 3
    /\ (lastOp = "standby" /\ lastArg = 1) => ModeBits(regs) = 0

\* C12 amended: a successful begin leaves CTRL_REG1 bits[1:0] at 10 (ACTIVE
\* set, READY clear, from CTRL_REG1 = 0x0E); standby(false), setRange and
\* setODR leave them at 11; standby(true) leaves them at 00.
C12_ActiveEncodings ==
    /\ (lastOp = "begin" /\ ret = TRUE) => ModeBits(regs) = 2
    /\ (lastOp = "standby" /\ lastArg = 0) => ModeBits(regs) = 3
    /\ lastOp \in {"setRange", "setODR"} => ModeBits(regs) = 3
    /\ (lastOp = "standby" /\ lastArg = 1) => ModeBits(regs) = 0

\* a successful begin on a device that standby(false) had left at 11
C12_Witness ==
    /\ lastOp = "begin"
    /\ ret = TRUE
    /\ trace[2].mode = 3
    /\ ModeBits(regs) = 2

\* the signed 16-bit value of the byte pair (hi, lo), most significant first
S16(hi, lo) == IF hi >= 128 THEN hi * 256 + lo - 65536 ELSE hi * 256 + lo

\* C13: getEvent() performs one bulk read of 7 bytes starting at STATUS (0x00)
\* and decodes raw.x from bytes 1, 2, raw.y from bytes 3, 4 and raw.z from
\* bytes 5, 6 as signed 16-bit values, most significant byte first.
C13_BulkReadDecode ==
    lastOp = "getEvent" =>
        /\ Len(trace) = 1
        /\ Wire(trace[1]) = <<"readBlock", 0, 7>>
        /\ Len(buffer) = 7
        /\ raw.x = S16(buffer[2], buffer[3])
        /\ raw.y = S16(buffer[4], buffer[5])
        /\ raw.z = S16(buffer[6], buffer[7])

\* the bytes 80 00, 7F FF, FF FF decoded to the extremes of int16
C13_Witness ==
    /\ lastOp = "getEvent"
    /\ buffer = <<0, 128, 0, 127, 255, 255, 255>>
    /\ raw = [x |-> -32768, y |-> 32767, z |-> -1]

\* the per-range constant k as 1/Den: 1/128, 1/64, 1/32, 1/16
Den(range) ==
    CASE range = 250  -> 128
      [] range = 500  -> 64
      [] range = 1000 -> 32
      [] range = 2000 -> 16

\* C14: for each of the four ranges getEvent() scales every axis as
\* raw * k(range) * (pi/180) with k = 1/128, 1/64, 1/32, 1/16 for 250, 500,
\* 1000, 2000 dps, the range being the recorded one.  out.gyro is in units of
\* (1/128)(pi/180) rad/s, so gyro / 128 = raw / Den.
C14_Scaling ==
    (lastOp = "getEvent" /\ _range \in gyroRange_t) =>
        /\ out.kind = "event"
        /\ out.gyro.x * Den(_range) = raw.x * 128
        /\ out.gyro.y * Den(_range) = raw.y * 128
        /\ out.gyro.z * Den(_range) = raw.z * 128

\* raw (100, -50, 0) at 250 dps: 100/128 = 0.78125, -50/128 = -0.390625, 0
C14_Witness ==
    /\ lastOp = "getEvent"
    /\ _range = GYRO_RANGE_250DPS
    /\ raw = [x |-> 100, y |-> -50, z |-> 0]
    /\ out.gyro = [x |-> 100, y |-> -50, z |-> 0]

\* C15: getEvent() sets raw to (0,0,0) before it reads the bus and returns
\* with raw holding exactly the triple decoded from that call's read; setRange,
\* setODR, standby and getSensor leave raw unchanged.
C15_RawLifecycle ==
    [][/\ lastOp' = "getEvent" =>
            /\ cleared'
            /\ raw' = [x |-> S16(buffer'[2], buffer'[3]),
                       y |-> S16(buffer'[4], buffer'[5]),
                       z |-> S16(buffer'[6], buffer'[7])]
       /\ lastOp' \in {"setRange", "setODR", "standby", "getSensor"} => raw' = raw]_vars

\* a getEvent that replaced an earlier sample
C15_Witness ==
    /\ lastOp = "getEvent"
    /\ cleared
    /\ buffer = <<15, 1, 2, 128, 1, 0, 255>>
    /\ raw = [x |-> 258, y |-> -32767, z |-> 255]

\* C16: getSensor() reports max_value = +R (pi/180) and min_value =
\* -R (pi/180) with R the range getRange() returns, so min_value = -max_value
\* and both follow every setRange call.  The unit of out is (pi/180) rad/s.
C16_SensorLimits ==
    lastOp = "getSensor" =>
        /\ out.kind = "sensor"
        /\ out.max_value = getRange
        /\ out.min_value = 0 - getRange
        /\ out.min_value = 0 - out.max_value
        /\ reqRange # 0 => out.max_value = reqRange

\* getSensor after setRange(2000)
C16_Witness ==
    /\ lastOp = "getSensor"
    /\ reqRange = GYRO_RANGE_2000DPS
    /\ out.max_value = 2000
    /\ out.min_value = -2000

\* C17: getEvent() returns true whatever the operating mode, issues no
\* register write and leaves CTRL_REG0, CTRL_REG1, the recorded range and the
\* recorded output rate unchanged.
C17_GetEventFrame ==
    [][lastOp' = "getEvent" =>
          /\ ret' = TRUE
          /\ \A i \in 1..Len(trace') : trace'[i].k # "write"
          /\ regs' = regs
          /\ _range' = _range
          /\ _ODR' = _ODR]_vars

\* a getEvent on a device in Standby
C17_Witness ==
    /\ lastOp = "getEvent"
    /\ ret = TRUE
    /\ ModeBits(regs) = 0
    /\ trace[1].mode = 0

\* the reads of the identity register in the most recent call
IdReads == SelectSeq(trace, LAMBDA e : e.k = "read" /\ e.reg = GYRO_REGISTER_WHO_AM_I)

\* C18 as stated: begin() reads the identity register exactly once, and a
\* begin() that fails issues no register write.
C18_OneReadNoWrite ==
    lastOp = "begin" =>
        /\ Len(IdReads) = 1
        /\ ret = FALSE => Len(Writes) = 0

\* C18 amended: begin() reads the identity register at most once - once when
\* the transport opens, not at all when it does not - and a begin() that fails
\* (transport open failure or identity mismatch) issues no register write, so
\* CTRL_REG0 and CTRL_REG1 keep their contents.
C18_NoRetryNoWrite ==
    [][lastOp' = "begin" =>
          /\ Len(IdReads') = (IF trace' = << >> THEN 0 ELSE 1)
          /\ (trace' = << >>) => (i2c_dev' = "closed" /\ ret' = FALSE)
          /\ ret' = FALSE => (Len(Writes') = 0 /\ regs' = regs)]_vars

\* a begin that met a foreign identity byte on a configured, running device
C18_Witness ==
    /\ IdMismatch
    /\ ret = FALSE
    /\ Len(IdReads) = 1
    /\ RateBits(regs) = 6
    /\ ModeBits(regs) = 3

\* the step repeats the previous configuration call with the same argument
Repeated ==
    /\ lastOp \in {"setRange", "setODR"}
    /\ lastOp' = lastOp
    /\ lastArg' = lastArg

\* C19: setRange(r) twice leaves the same driver state and register contents
\* as setRange(r) once, and setODR(o) twice the same as setODR(o) once, for
\* valid and invalid o.
C19_Idempotent ==
    [][Repeated =>
          /\ regs' = regs
          /\ _range' = _range
          /\ _ODR' = _ODR
          /\ raw' = raw
          /\ i2c_dev' = i2c_dev]_vars

\* setRange(1000) on a device whose range field already held 01 and which
\* was Active, i.e. after an earlier setRange(1000)
C19_Witness ==
    /\ lastOp = "setRange"
    /\ lastArg = GYRO_RANGE_1000DPS
    /\ trace[1].mode = 3
    /\ trace[5].k = "write"
    /\ trace[5].reg = GYRO_REGISTER_CTRL_REG0
    /\ Field(trace[5].old, 2, 0) = 1
    /\ trace[5].val = trace[5].old

\* setRange leaves the rate alone, setODR leaves the range alone
ConfigFrame ==
    /\ lastOp' = "setRange" => (_ODR' = _ODR /\ RateBits(regs') = RateBits(regs))
    /\ lastOp' = "setODR" => (_range' = _range /\ RangeBits(regs') = RangeBits(regs))

\* from the current state both orders of setRange(r) and setODR(o) end with
\* the same register contents (the driver ends with _range = r, _ODR = o in
\* both)
ConfigCommutes ==
    \A r \in gyroRange_t, o \in OdrArgs :
        setODRBus(setRangeBus(Start, r), o).regs = setRangeBus(setODRBus(Start, o), r).regs

\* C20: setRange changes neither the recorded output rate nor CTRL_REG1
\* bits[4:2], setODR changes neither the recorded range nor CTRL_REG0
\* bits[1:0], and setRange(r);setODR(o) ends in the same state as
\* setODR(o);setRange(r).
C20_Independent == []ConfigCommutes /\ [][ConfigFrame]_vars

\* setODR(12.5 Hz) after setRange(500): both settings stand
C20_Witness ==
    /\ lastOp = "setODR"
    /\ lastArg = GYRO_ODR_12_5HZ
    /\ reqRange = GYRO_RANGE_500DPS
    /\ _range = GYRO_RANGE_500DPS
    /\ RangeBits(regs) = 2
    /\ RateBits(regs) = 6

\* C21: standby(enter) changes only CTRL_REG1 bits[1:0], to 00 when enter is
\* true and to 11 when it is false: CTRL_REG1 bits[7:2], all of CTRL_REG0, the
\* recorded range, the recorded output rate and the Raw Sample are unchanged.
C21_StandbyFrame ==
    [][lastOp' = "standby" =>
          /\ ModeBits(regs') = (IF lastArg' = 1 THEN 0 ELSE 3)
          /\ Field(regs'[GYRO_REGISTER_CTRL_REG1], 6, 2) = Field(regs[GYRO_REGISTER_CTRL_REG1], 6, 2)
          /\ regs'[GYRO_REGISTER_CTRL_REG0] = regs[GYRO_REGISTER_CTRL_REG0]
          /\ _range' = _range
          /\ _ODR' = _ODR
          /\ raw' = raw]_vars

\* standby(true) on an Active device whose CTRL_REG1 held 0x2F and whose
\* CTRL_REG0 held 0xDE: the registers now hold 0x2C and 0xDE, and a sample
\* is still in raw
C21_Witness ==
    /\ lastOp = "standby"
    /\ lastArg = 1
    /\ trace[1].mode = 3
    /\ trace[1].old = 47
    /\ regs[GYRO_REGISTER_CTRL_REG1] = 44
    /\ regs[GYRO_REGISTER_CTRL_REG0] = 222
    /\ raw # ZeroRaw

\* C22: once a begin has succeeded, whatever setRange, setODR, standby and
\* getEvent calls follow, the recorded range is one of the four ranges and is
\* the one CTRL_REG0 bits[1:0] encode (11 = 250, 10 = 500, 01 = 1000,
\* 00 = 2000 dps).
C22_RangeMatchesRegister ==
    initialized =>
        /\ _range \in gyroRange_t
        /\ _range = (CASE RangeBits(regs) = 3 -> 250
                       [] RangeBits(regs) = 2 -> 500
                       [] RangeBits(regs) = 1 -> 1000
                       [] RangeBits(regs) = 0 -> 2000)

\* a getEvent scaled for 1000 dps on a device whose range field holds 01,
\* setRange(1000) having followed a successful begin
C22_Witness ==
    /\ initialized
    /\ lastOp = "getEvent"
    /\ reqRange = GYRO_RANGE_1000DPS
    /\ _range = GYRO_RANGE_1000DPS
    /\ RangeBits(regs) = 1
    /\ out.gyro.x = raw.x * 4

\* the driver and the device as initialize() leaves them
AfterFirstBegin ==
    /\ _range = GYRO_RANGE_250DPS
    /\ _ODR = GYRO_ODR_100HZ
    /\ raw = ZeroRaw
    /\ i2c_dev = "open"
    /\ regs = (GYRO_REGISTER_CTRL_REG0 :> 3) @@ (GYRO_REGISTER_CTRL_REG1 :> 14)

\* C23: a successful begin(), the first or a repeated one, whatever setRange,
\* setODR and getEvent calls preceded it, returns with the recorded range at
\* 250 dps, the recorded output rate at 100 Hz, the Raw Sample at zero,
\* CTRL_REG0 = 0x03 and CTRL_REG1 = 0x0E: one and the same state after the
\* first successful begin and after every later one.
C23_BeginResets ==
    (lastOp = "begin" /\ ret = TRUE) => AfterFirstBegin

\* a second successful begin, on a driver that had been set to 1000 dps and
\* 12.5 Hz and held a sample
C23_Witness ==
    /\ lastOp = "begin"
    /\ ret = TRUE
    /\ atBegin.init
    /\ atBegin.range = GYRO_RANGE_1000DPS
    /\ atBegin.ODR = GYRO_ODR_12_5HZ
    /\ atBegin.raw # ZeroRaw
    /\ AfterFirstBegin

====
